---- MODULE Spec2Model ----
(***************************************************************************)
(* The job lifecycle orchestrator of scripts/auto-earn.js: the polling     *)
(* loop earningLoop and the operations it calls (findJobs, placeBid,       *)
(* checkBids, checkForRequestChanges, the work/verify/submit loop and the  *)
(* payment check), the persisted snapshot written by saveState and read    *)
(* by loadState, and the reset-bids command.                               *)
(*                                                                         *)
(* The marketplace is the environment: every response of apiRequest is     *)
(* drawn from a small set.  HTTP status 0 stands for a rejected promise    *)
(* (timeout or socket error).  Amounts are integer hundredths of a NEAR.   *)
(***************************************************************************)
EXTENDS Integers, Sequences, FiniteSets, TLC

VARIABLES
    Config,     \* in-memory CONFIG: running, alreadyBidJobIds (a JS Set, kept in insertion order)
    State,      \* in-memory STATE of the loop process
    disk,       \* contents of state.json (the last snapshot written by saveState)
    configFile, \* contents of config.json (written by saveConfig), NoConfigFile while there is none
    proc,       \* "stopped" | "running": whether the `start` process is alive
    pc,         \* position of earningLoop
    todo,       \* the items the current for-of loop still has to visit
    work,       \* the deliverable doRealWork returned for the job being worked on
    bidReqs,    \* history: POST /jobs/{id}/bids requests issued per job (saturating)
    subReqs,    \* history: POST /jobs/{id}/submit requests issued per job (saturating)
    accrued,    \* history: times totalEarnings was increased for a job (saturating)
    refused,    \* history of the current cycle: the jobs whose deliverable URL failed the check
    last,       \* history: the operation performed by the last step and what it observed
    hist,       \* history: what held when the process last stopped, stop requests, failing cycles
    fix         \* position of doRealWork in its build-and-test loop

vars == <<Config, State, disk, configFile, proc, pc, todo, work, bidReqs, subReqs, accrued, refused,
          last, hist, fix>>

----------------------------------------------------------------------------
(* Bounds of the model *)

MaxCycles == 2          \* cycles a process may start (caps STATE.cycleCount)
MaxCount == 2           \* saturation of the history counters
MaxIdleCycles == 6   \* cycles a process may start when the marketplace has no job for it
MaxLen == 3          \* tokens in the content of a file given to the round trip

(* Program constants *)

maxConsecutiveErrors == 5
maxFixAttempts == 2      \* const maxFixAttempts = 2 in doRealWork
minBudget == 10         \* CONFIG.minBudget = 0.1 NEAR
floorPrice == 10        \* Math.max(..., 0.1)
zeroBudgetBid == 80     \* '0.80'
qualityThreshold == 40  \* quality < 40 is skipped

NULL == "null"
TransportError == 0
NoBudget == -1          \* budget_amount: null

----------------------------------------------------------------------------
(* The jobs the marketplace may list.  j3 is a competition job. *)

JobIds == {"j1", "j2"}
ListedJobIds == {"j1", "j2", "j3"}
JobOrder == <<"j1", "j2", "j3">>

Job(j) ==
    [job_id |-> j,
     job_type |-> IF j = "j3" THEN "competition" ELSE "standard",
     budget_amount |-> IF j = "j1" THEN 1000 ELSE IF j = "j2" THEN NoBudget ELSE 500,
     bid_count |-> IF j = "j2" THEN 3 ELSE 0,
     rust |-> FALSE,
     python |-> j = "j2",
     category |-> IF j = "j1" THEN "smart-contract" ELSE "general"]

SeqOf(S) == SelectSeq(JobOrder, LAMBDA j : j \in S)

Range(s) == {s[i] : i \in 1..Len(s)}

----------------------------------------------------------------------------
(* Pure helpers *)

\* parseFloat(job.budget_amount || 0)
budgetOf(job) == IF job.budget_amount = NoBudget THEN 0 ELSE job.budget_amount

calculateJobQuality(job) ==
    50 + (IF budgetOf(job) >= 300 THEN 20 ELSE 0)
       + (IF job.rust THEN 15 ELSE 0)
       + (IF job.python THEN 15 ELSE 0)
       - (IF job.bid_count > 15 THEN 20 ELSE 0)

categoryMultiplier(category) ==
    CASE category = "security" -> 55
      [] category = "smart-contract" -> 50
      [] category \in {"analytics", "backend"} -> 45
      [] category \in {"documentation", "testing"} -> 35
      [] OTHER -> 40

strategyFactor(strategy) ==
    CASE strategy = "aggressive" -> 75
      [] strategy = "conservative" -> 135
      [] OTHER -> 100

\* x / d rounded to the nearest integer, halves up (Number.prototype.toFixed on hundredths)
RoundDiv(x, d) == (2 * x + d) \div (2 * d)

Max(a, b) == IF a >= b THEN a ELSE b

\* A bid computation without the floor price
calculateBidAmount_noFloor(job, category, strategy) ==
    IF budgetOf(job) <= 0 THEN zeroBudgetBid
    ELSE RoundDiv(budgetOf(job) * categoryMultiplier(category) * strategyFactor(strategy), 10000)

calculateBidAmount(job, category, strategy) ==
    IF budgetOf(job) <= 0 THEN zeroBudgetBid
    ELSE Max(RoundDiv(budgetOf(job) * categoryMultiplier(category) * strategyFactor(strategy), 10000),
             floorPrice)

\* Set.prototype.add on a Set kept in insertion order
SetAdd(s, x) == IF x \in Range(s) THEN s ELSE Append(s, x)

RECURSIVE SetFromArray(_)
\* new Set(array): duplicates dropped, first occurrences kept in order
SetFromArray(a) ==
    IF a = <<>> THEN <<>>
    ELSE LET rest == SetFromArray(SubSeq(a, 1, Len(a) - 1))
         IN SetAdd(rest, a[Len(a)])

\* [...set]
ArrayFromSet(s) == s

HasJob(jobs, j) == \E i \in 1..Len(jobs) : jobs[i].jobId = j

IdsOf(jobs) == {jobs[i].jobId : i \in 1..Len(jobs)}

\* array.filter(x => x.jobId !== j)
FilterOut(jobs, j) == SelectSeq(jobs, LAMBDA r : r.jobId # j)

RECURSIVE ReplaceFirst(_, _, _)
\* the array with its first element equal to old replaced by new (a mutated object)
ReplaceFirst(jobs, old, new) ==
    IF jobs = <<>> THEN <<>>
    ELSE IF Head(jobs) = old THEN <<new>> \o Tail(jobs)
    ELSE <<Head(jobs)>> \o ReplaceFirst(Tail(jobs), old, new)

----------------------------------------------------------------------------
(* State after construction: module-level CONFIG and STATE, no state.json yet *)

InitialState ==
    [pendingBids |-> <<>>,
     activeJobs |-> <<>>,
     deliveredJobs |-> <<>>,
     paidJobs |-> <<>>,
     totalEarnings |-> 0,
     consecutiveErrors |-> 0,
     bidsPlaced |-> 0,
     bidsWon |-> 0,
     cycleCount |-> 0]

\* CONFIG.maxConcurrent as the program text sets it
maxConcurrent == 25

InitialConfig ==
    [running |-> FALSE, bidStrategy |-> "aggressive", maxConcurrent |-> maxConcurrent,
     alreadyBidJobIds |-> <<>>]

(* Persistence *)

\* saveState: STATE.alreadyBidJobIds = [...CONFIG.alreadyBidJobIds]; state.json = STATE.
\* The snapshot written: the fields of STATE, and the array made from the Set.
saveState(C, S) == [state |-> S, alreadyBidJobIds |-> ArrayFromSet(C.alreadyBidJobIds)]

\* A faulty reload: state.json is ignored and the defaults are kept
loadState_defaults(saved) == InitialState

\* loadState: Object.assign(STATE, saved)
loadState(saved) == saved.state

\* loadState: CONFIG.alreadyBidJobIds = new Set(STATE.alreadyBidJobIds || [])
loadedBidSet(saved) == SetFromArray(saved.alreadyBidJobIds)

\* config.json before anything wrote it: fs.existsSync(CONFIG_FILE) is false
NoConfigFile == [exists |-> FALSE]

\* loadConfig: Object.assign(CONFIG, saved) without alreadyBidJobIds, if config.json exists
loadConfig(file) ==
    IF ~file.exists THEN InitialConfig
    ELSE [InitialConfig EXCEPT !.running = file.running,
                               !.bidStrategy = file.bidStrategy,
                               !.maxConcurrent = file.maxConcurrent]

\* saveConfig: CONFIG without alreadyBidJobIds is written to config.json
saveConfig(C) ==
    [exists |-> TRUE, running |-> C.running, bidStrategy |-> C.bidStrategy,
     maxConcurrent |-> C.maxConcurrent]

\* config.json as an operator wrote it to have the agent hold one job at a time
\* (loadConfig copies every key of the file but alreadyBidJobIds onto CONFIG)
OneJobConfigFile ==
    [exists |-> TRUE, running |-> FALSE, bidStrategy |-> "aggressive", maxConcurrent |-> 1]

\* The catch block of earningLoop: count the error, then sleep
catchError(S) == [S EXCEPT !.consecutiveErrors = @ + 1]

\* A history counter raised by one, saturating at MaxCount
Bump(f, j) == [f EXCEPT ![j] = IF @ < MaxCount THEN @ + 1 ELSE @]

\* No job detail was read
NoResp == [status |-> NULL, my_assignments |-> <<>>, worker |-> FALSE]

NoOp == [op |-> "none", jobId |-> NULL, status |-> -1, obs |-> NULL, msg |-> NULL,
         resp |-> NoResp]

Op(o, j, s, a, m) ==
    [op |-> o, jobId |-> j, status |-> s, obs |-> a, msg |-> m, resp |-> NoResp]

\* An operation together with the job detail it read: status, my_assignments and
\* whether worker_agent_id is set
OpOn(o, j, s, a, m, jstatus, asgs, worker) ==
    [op |-> o, jobId |-> j, status |-> s, obs |-> a, msg |-> m,
     resp |-> [status |-> jstatus, my_assignments |-> asgs, worker |-> worker]]

\* Nothing has stopped, been asked to stop, or failed yet; publishFailed is the set of
\* jobs for which the gist step of doRealWork gave no URL in the current cycle; scored
\* is the set of jobs whose deliverable an evaluator has scored since doRealWork made
\* it (doRealWork and the work loop call no evaluator, so no action adds to it);
\* resetPending holds from the end of a reset-bids command to the start of the next
\* cycle, and bidAtReset is the set of ids that were recorded as bid, in state.json or
\* in the memory of the loop process, when the command was run; dueWork is the set of
\* jobs that the award check or the rework check of the current cycle put into
\* activeJobs and that doRealWork has not been called for since, duePay the set of
\* jobs delivered in the current cycle whose payment check has not run since; expired
\* is the set of jobs that a payment check of the running process has removed because
\* the job had expired, messaged the set of jobs for which the running process has
\* posted the starting message, locked the set of jobs whose submit request was
\* answered 409 and that have neither been sent back by the rework check nor been
\* paid since
NoHistory ==
    [bidBefore |-> {}, inFlight |-> {}, stopAsked |-> FALSE, streak |-> 0, publishFailed |-> {},
     scored |-> {}, resetPending |-> FALSE, bidAtReset |-> {}, dueWork |-> {}, duePay |-> {},
     expired |-> {}, messaged |-> {}, locked |-> {}]

\* doRealWork is not running
FixIdle ==
    [phase |-> "idle", kind |-> "none", usedAI |-> FALSE, attempt |-> 0, runs |-> 0,
     fixCalls |-> 0, files |-> 0, warned |-> {}, published |-> -1, result |-> NULL,
     fallback |-> FALSE, fileSet |-> <<>>]

\* CONFIG, STATE and the files as they are before the first command is run, with
\* config.json as given
InitWith(file) ==
    /\ Config = InitialConfig
    /\ State = InitialState
    /\ disk = saveState(InitialConfig, InitialState)
    /\ proc = "stopped"
    /\ pc = "exit"
    /\ todo = <<>>
    /\ work = NULL
    /\ bidReqs = [j \in JobIds |-> 0]
    /\ subReqs = [j \in JobIds |-> 0]
    /\ accrued = [j \in JobIds |-> 0]
    /\ refused = {}
    /\ last = NoOp
    /\ hist = NoHistory
    /\ configFile = file

\* CONFIG, STATE and the files as they are before the first command is run
InitProgram == InitWith(NoConfigFile)

Init ==
    /\ InitProgram
    /\ fix = FixIdle

\* The same, with maxConcurrent set to 1 in config.json
InitOneJobConfig ==
    /\ InitWith(OneJobConfigFile)
    /\ fix = FixIdle

----------------------------------------------------------------------------
(* What the marketplace may answer *)

FindStatuses == {200, 500, TransportError}
BidStatuses == {200, 201, 409, TransportError}
ListStatuses == {200, 500, TransportError}
DetailStatuses == {200, 404, TransportError}
SubmitStatuses == {200, 201, 409, 500, TransportError}
MessageStatuses == {201, TransportError}
HeadStatuses == {200, 302, 404, TransportError}
JobStatuses == {"in_progress", "completed", "closed", "expired"}

Asg(id, st) == [assignment_id |-> id, status |-> st]

AssignmentLists ==
    { <<>>,
      <<Asg("a1", "in_progress")>>,
      <<Asg("a1", "submitted")>>,
      <<Asg("a1", "accepted")>>,
      <<Asg("a1", "disputed")>>,
      <<Asg("a1", "submitted"), Asg("a2", "in_progress")>> }

Msg(b) == [body |-> b]

MessageLists == { <<>>, <<Msg("old"), Msg("fix")>> }

NoAssignment == Asg(NULL, NULL)

\* myAssignments[0]
firstAssignment(asgs) == IF asgs = <<>> THEN NoAssignment ELSE asgs[1]

\* myAssignments.find(a => a.status === 'in_progress') || myAssignments[0]
pickAssignment(asgs) ==
    IF \E i \in 1..Len(asgs) : asgs[i].status = "in_progress"
    THEN asgs[CHOOSE i \in 1..Len(asgs) :
                /\ asgs[i].status = "in_progress"
                /\ \A k \in 1..(i - 1) : asgs[k].status # "in_progress"]
    ELSE firstAssignment(asgs)

----------------------------------------------------------------------------
(* The process and the commands of main() *)

\* `node auto-earn.js start`: loadConfig(); loadState(); earningLoop() sets CONFIG.running
Start ==
    /\ proc = "stopped"
    /\ proc' = "running"
    /\ State' = loadState(disk)
    /\ Config' = [loadConfig(configFile) EXCEPT !.running = TRUE,
                                                !.alreadyBidJobIds = loadedBidSet(disk)]
    /\ pc' = "top"
    /\ todo' = <<>>
    /\ work' = NULL
    /\ last' = Op("start", NULL, -1, NULL, NULL)
    /\ refused' = {}
    /\ UNCHANGED <<configFile, hist, fix, disk, bidReqs, subReqs, accrued>>

\* The history as the end of the process leaves it
AtProcessEnd ==
    [hist EXCEPT !.bidBefore = @ \cup {j \in JobIds : bidReqs[j] > 0},
                 !.inFlight = IdsOf(State.activeJobs) \cup IdsOf(State.deliveredJobs),
                 !.stopAsked = FALSE,
                 !.dueWork = {},
                 !.duePay = {},
                 !.expired = {},
                 !.messaged = {},
                 !.locked = {}]

\* The process is ended from outside (signal, crash of the host) at an await
Kill ==
    /\ proc = "running"
    /\ proc' = "stopped"
    /\ pc' = "exit"
    /\ todo' = <<>>
    /\ work' = NULL
    /\ last' = Op("kill", NULL, -1, NULL, NULL)
    /\ hist' = AtProcessEnd
    /\ UNCHANGED <<configFile, fix, Config, State, disk, bidReqs, subReqs, accrued, refused>>

\* `node auto-earn.js reset-bids`, a process of its own: loadState(); clear; saveState()
ResetBids ==
    /\ disk' = saveState([loadConfig(configFile) EXCEPT !.alreadyBidJobIds = <<>>], loadState(disk))
    /\ last' = Op("reset-bids", NULL, -1, NULL, NULL)
    /\ hist' = [hist EXCEPT !.resetPending = TRUE,
                             !.bidAtReset = @ \cup Range(disk.alreadyBidJobIds)
                                              \cup Range(Config.alreadyBidJobIds)]
    /\ UNCHANGED <<configFile, fix, Config, State, proc, pc, todo, work, bidReqs, subReqs,
                   accrued, refused>>

\* `node auto-earn.js stop`, a process of its own: loadConfig(); CONFIG.running = false;
\* saveConfig().  It writes config.json and touches nothing of the loop process.
Stop ==
    /\ configFile' = saveConfig([loadConfig(configFile) EXCEPT !.running = FALSE])
    /\ hist' = [hist EXCEPT !.stopAsked = @ \/ proc = "running"]
    /\ last' = Op("stop", NULL, -1, NULL, NULL)
    /\ UNCHANGED <<Config, State, disk, proc, pc, todo, work, bidReqs, subReqs, accrued, refused, fix>>

----------------------------------------------------------------------------
(* earningLoop *)

\* An uncaught rejection inside the try block: the catch block runs, the loop sleeps
Throw(S) ==
    /\ State' = catchError(S)
    /\ pc' = "errsleep"
    /\ todo' = <<>>
    /\ work' = NULL

\* The predicate of jobs.filter in findJobs
biddable(C, job) ==
    /\ job.job_id \notin Range(C.alreadyBidJobIds)
    /\ job.job_type # "competition"
    /\ ~(job.budget_amount # NoBudget /\ budgetOf(job) < minBudget)
    /\ calculateJobQuality(job) >= qualityThreshold

findJobs(C, st, open) ==
    IF st # 200 THEN <<>>
    ELSE SelectSeq(SeqOf(open), LAMBDA j : biddable(C, Job(j)))

\* The condition of `while (CONFIG.running)`, read from the CONFIG of the loop process
loopGoesOn(C) == C.running

\* while (CONFIG.running) { STATE.cycleCount++; const jobs = await findJobs(); ...
\* When the condition is false the loop ends, earningLoop returns and the process exits.
CycleStart(E) ==
    /\ proc = "running" /\ pc = "top"
    /\ IF loopGoesOn(Config)
       THEN /\ State.cycleCount < E.cycles
            /\ \E st \in FindStatuses, open \in SUBSET E.listed :
                 /\ st # 200 => open = {}
                 /\ LET S1 == [State EXCEPT !.cycleCount = @ + 1] IN
                    IF st = TransportError
                    THEN Throw(S1)
                    ELSE /\ State' = S1
                         /\ pc' = "bid"
                         /\ todo' = findJobs(Config, st, open)
                         /\ work' = NULL
                 /\ last' = Op("findJobs", NULL, st, NULL, NULL)
            /\ hist' = [hist EXCEPT !.publishFailed = {}, !.resetPending = FALSE,
                                     !.bidAtReset = {}]
            /\ proc' = proc
       ELSE /\ proc' = "stopped"
            /\ pc' = "exit"
            /\ last' = Op("exit", NULL, -1, NULL, NULL)
            /\ hist' = AtProcessEnd
            /\ UNCHANGED <<State, todo, work>>
    /\ refused' = {}
    /\ UNCHANGED <<configFile, fix, Config, disk, bidReqs, subReqs, accrued>>

\* What placeBid does to CONFIG.alreadyBidJobIds once apiRequest has resolved with st
bidRecorded(C, jobId, st) ==
    [C EXCEPT !.alreadyBidJobIds = SetAdd(@, jobId)]

\* for (const job of jobs) { const bid = await placeBid(job); if (bid) pendingBids.push(bid) }
PlaceBid ==
    /\ proc = "running" /\ pc = "bid" /\ todo # <<>>
    /\ LET jobId == Head(todo)
           amount == calculateBidAmount(Job(jobId), Job(jobId).category, Config.bidStrategy)
       IN
       /\ bidReqs' = Bump(bidReqs, jobId)
       /\ \E st \in BidStatuses :
            /\ IF st = TransportError
               THEN /\ Throw(State)
                    /\ Config' = Config
               ELSE /\ Config' = bidRecorded(Config, jobId, st)
                    /\ State' = IF st \in {200, 201}
                                THEN [State EXCEPT
                                        !.bidsPlaced = @ + 1,
                                        !.pendingBids = Append(@, [jobId |-> jobId, amount |-> amount])]
                                ELSE State
                    /\ pc' = "bid"
                    /\ todo' = Tail(todo)
                    /\ work' = NULL
            /\ last' = Op("placeBid", jobId, st, NULL, NULL)
    /\ UNCHANGED <<configFile, hist, fix, disk, proc, subReqs, accrued, refused>>

\* checkBids up to the loop over the accepted bids
CheckBids(E) ==
    /\ proc = "running" /\ pc = "bid" /\ todo = <<>>
    /\ \E st \in ListStatuses, accepted \in SUBSET E.accepted :
         /\ st # 200 => accepted = {}
         /\ IF st = TransportError
            THEN Throw(State)
            ELSE /\ State' = State
                 /\ pc' = "award"
                 /\ todo' = SeqOf(accepted)
                 /\ work' = NULL
         /\ last' = Op("checkBids", NULL, st, NULL, NULL)
    /\ UNCHANGED <<configFile, hist, fix, Config, disk, proc, bidReqs, subReqs, accrued, refused>>

\* A faulty guard: an accepted bid whose job is already in deliveredJobs is tracked again
untracked_ignoringDelivered(S, jobId) ==
    /\ ~HasJob(S.activeJobs, jobId)
    /\ ~HasJob(S.paidJobs, jobId)

\* The guard of checkBids: the accepted bid's job is in none of the three collections
untracked(S, jobId) ==
    /\ ~HasJob(S.activeJobs, jobId)
    /\ ~HasJob(S.deliveredJobs, jobId)
    /\ ~HasJob(S.paidJobs, jobId)

\* The object checkBids pushes onto activeJobs
newTrackedJob(jobId, amount, asgs) ==
    [jobId |-> jobId,
     amount |-> amount,
     status |-> "awarded",
     messageSent |-> FALSE,
     assignmentId |-> pickAssignment(asgs).assignment_id,
     changesFeedback |-> NULL]

\* The amount the marketplace reports for the agent's bid on a job: the amount it posted
bidAmount(jobId) ==
    calculateBidAmount(Job(jobId), Job(jobId).category, InitialConfig.bidStrategy)

\* One iteration of `for (const bid of accepted)` in checkBids
Award ==
    /\ proc = "running" /\ pc = "award" /\ todo # <<>>
    /\ LET jobId == Head(todo) IN
       /\ IF ~untracked(State, jobId)
          THEN /\ State' = State
               /\ pc' = "award"
               /\ todo' = Tail(todo)
               /\ work' = NULL
               /\ last' = Op("checkBids.skip", jobId, -1, NULL, NULL)
          ELSE \E st \in DetailStatuses, asgs \in AssignmentLists :
               /\ st # 200 => asgs = <<>>
               /\ LET S1 == [State EXCEPT !.bidsWon = @ + 1] IN
                  IF st = TransportError
                  THEN Throw(S1)
                  ELSE /\ State' = [S1 EXCEPT !.activeJobs =
                                       Append(@, newTrackedJob(jobId, bidAmount(jobId), asgs))]
                       /\ pc' = "award"
                       /\ todo' = Tail(todo)
                       /\ work' = NULL
               /\ last' = OpOn("checkBids.award", jobId, st, NULL, NULL, NULL, asgs, FALSE)
       /\ hist' = IF HasJob(State'.activeJobs, jobId) /\ ~HasJob(State.activeJobs, jobId)
                  THEN [hist EXCEPT !.dueWork = @ \cup {jobId}]
                  ELSE hist
    /\ UNCHANGED <<configFile, fix, Config, disk, proc, bidReqs, subReqs, accrued, refused>>

\* checkBids returns; checkForRequestChanges starts on a copy of deliveredJobs
AwardDone ==
    /\ proc = "running" /\ pc = "award" /\ todo = <<>>
    /\ pc' = "changes"
    /\ todo' = State.deliveredJobs
    /\ last' = Op("checkBids.done", NULL, -1, NULL, NULL)
    /\ UNCHANGED <<configFile, hist, fix, Config, State, disk, proc, work, bidReqs, subReqs, accrued, refused>>

\* A faulty capture: the first message of the thread is taken instead of the last
latestFeedback_first(mst, msgs, old) ==
    IF mst = 200 /\ msgs # <<>>
    THEN (IF msgs[1].body = NULL THEN "" ELSE msgs[1].body)
    ELSE old

\* lastMsg.body || '' for the last element of the messages array, if there is one
latestFeedback(mst, msgs, old) ==
    IF mst = 200 /\ msgs # <<>>
    THEN (IF msgs[Len(msgs)].body = NULL THEN "" ELSE msgs[Len(msgs)].body)
    ELSE old

\* A faulty rework: the job goes back with the status it had in deliveredJobs
sentBack_keepStatus(dJob, asg, mst, msgs) ==
    [dJob EXCEPT !.messageSent = TRUE,
                 !.assignmentId = asg.assignment_id,
                 !.changesFeedback = latestFeedback(mst, msgs, @)]

\* The delivered job as checkForRequestChanges leaves it when it moves it back
sentBack(dJob, asg, mst, msgs) ==
    [dJob EXCEPT !.status = "awarded",
                 !.messageSent = TRUE,
                 !.assignmentId = asg.assignment_id,
                 !.changesFeedback = latestFeedback(mst, msgs, @)]

\* A faulty move: the job is pushed onto activeJobs and left in deliveredJobs
moveToActive_keepDelivered(S, job) ==
    [S EXCEPT !.activeJobs = Append(@, job)]

\* STATE after the job was moved from deliveredJobs back to activeJobs
moveToActive(S, job) ==
    [S EXCEPT !.activeJobs = Append(@, job),
              !.deliveredJobs = FilterOut(@, job.jobId)]

\* One iteration of `for (const dJob of [...STATE.deliveredJobs])` in checkForRequestChanges.
\* A rejected request is caught inside the iteration.
RequestChanges ==
    /\ proc = "running" /\ pc = "changes" /\ todo # <<>>
    /\ LET dJob == Head(todo) IN
       \E st \in ListStatuses, asgs \in AssignmentLists,
          mst \in {200, 500, TransportError}, msgs \in MessageLists :
         /\ st # 200 => asgs = <<>>
         /\ (st # 200 \/ firstAssignment(asgs).status # "in_progress") => mst = 200 /\ msgs = <<>>
         /\ mst # 200 => msgs = <<>>
         /\ LET asg == firstAssignment(asgs) IN
            IF st = 200 /\ asg.status = "in_progress"
            THEN /\ State' = moveToActive(State, sentBack(dJob, asg, mst, msgs))
                 /\ hist' = [hist EXCEPT !.dueWork = @ \cup {dJob.jobId},
                                          !.locked = @ \ {dJob.jobId}]
                 /\ last' = Op("requestChanges", dJob.jobId, mst, asg.status,
                               IF msgs = <<>> THEN NULL ELSE msgs[Len(msgs)].body)
            ELSE /\ State' = State
                 /\ hist' = hist
                 /\ last' = Op("checkChanges", dJob.jobId, st, asg.status, NULL)
    /\ pc' = "changes"
    /\ todo' = Tail(todo)
    /\ UNCHANGED <<configFile, fix, Config, disk, proc, work, bidReqs, subReqs, accrued, refused>>

\* checkForRequestChanges returns; the work loop starts on a copy of activeJobs
RequestChangesDone ==
    /\ proc = "running" /\ pc = "changes" /\ todo = <<>>
    /\ pc' = "work"
    /\ todo' = State.activeJobs
    /\ last' = Op("checkChanges.done", NULL, -1, NULL, NULL)
    /\ UNCHANGED <<configFile, hist, fix, Config, State, disk, proc, work, bidReqs, subReqs, accrued, refused>>

\* sendWorkingMessage: the job object after the call.  st/asgs answer GET /jobs/{id},
\* pst answers POST /assignments/{id}/messages; a rejection is caught inside.
sendWorkingMessage(job, st, asgs, pst) ==
    IF job.messageSent THEN job
    ELSE LET found == IF job.assignmentId # NULL THEN job.assignmentId
                      ELSE IF st = 200 THEN pickAssignment(asgs).assignment_id
                      ELSE NULL
             thrown == job.assignmentId = NULL /\ st = TransportError
         IN IF thrown THEN job
            ELSE IF found = NULL THEN job
            ELSE IF pst = TransportError THEN [job EXCEPT !.assignmentId = found]
            ELSE [job EXCEPT !.assignmentId = found, !.messageSent = TRUE]

\* What `gh gist create` may do: print a URL, print nothing, or fail
GistOutcomes == {"url", "empty", "fails"}

\* A deliverable that falls back to the local file when hosting fails
publishResult_fileFallback(g) == IF g = "url" THEN "url" ELSE "file"

\* deliverableUrl after the gist step, and the value doRealWork returns for it:
\* return deliverableUrl ? {url: deliverableUrl, ...} : null
publishResult(g) == IF g = "url" THEN "url" ELSE NULL

\* One iteration of the work loop up to the result of doRealWork
Work ==
    /\ proc = "running" /\ pc = "work" /\ todo # <<>>
    /\ LET job == Head(todo) IN
       IF job.status # "awarded"
       THEN /\ State' = State
            /\ pc' = "work"
            /\ todo' = Tail(todo)
            /\ work' = NULL
            /\ hist' = hist
            /\ last' = Op("work.skip", job.jobId, -1, NULL, NULL)
       ELSE \E st \in DetailStatuses, asgs \in AssignmentLists, pst \in MessageStatuses,
               g \in GistOutcomes :
            /\ (job.messageSent \/ job.assignmentId # NULL) => st = 200 /\ asgs = <<>>
            /\ st # 200 => asgs = <<>>
            /\ job.messageSent => pst = 201
            /\ LET job2 == sendWorkingMessage(job, st, asgs, pst)
                   w == publishResult(g)
               IN
               /\ State' = [State EXCEPT !.activeJobs = ReplaceFirst(@, job, job2)]
               /\ work' = w
               /\ hist' = [hist EXCEPT !.dueWork = @ \ {job.jobId},
                                        !.messaged = IF job2.messageSent /\ ~job.messageSent
                                                     THEN @ \cup {job.jobId} ELSE @,
                                        !.publishFailed = IF g = "url" THEN @
                                                          ELSE @ \cup {job.jobId}]
               /\ IF w = NULL
                  THEN pc' = "work" /\ todo' = Tail(todo)
                  ELSE pc' = "verify" /\ todo' = <<job2>> \o Tail(todo)
               /\ last' = Op("doRealWork", job.jobId, -1, w, NULL)
    /\ UNCHANGED <<configFile, fix, Config, disk, proc, bidReqs, subReqs, accrued, refused>>

\* verifyUrlStatus: true for a status in 200..399, false otherwise and on error or timeout
verifyUrlStatus(hs) == hs >= 200 /\ hs < 400

\* A faulty gate: the result of the URL check is ignored
goesOnToSubmit_always(isLive) == TRUE

\* if (!isLive) { continue; }: whether the iteration goes on to the submit request
goesOnToSubmit(isLive) == isLive

\* What the promise of verifyUrlStatus(url) settles to.  `new URL(url)` runs in the
\* executor of the promise before the request is made: when it throws (the text gh
\* printed is no URL) the promise is rejected; otherwise it resolves to true or false.
urlCheck(parses, hs) ==
    IF ~parses THEN "rejected"
    ELSE IF verifyUrlStatus(hs) THEN "live" ELSE "dead"

\* const isLive = await verifyUrlStatus(work.url); if (!isLive) continue;
\* A rejection of the promise is not caught in the iteration.
Verify ==
    /\ proc = "running" /\ pc = "verify"
    /\ \E parses \in BOOLEAN, hs \in HeadStatuses :
         LET isLive == verifyUrlStatus(hs)
             jobId == Head(todo).jobId
         IN
         /\ ~parses => hs = TransportError
         /\ IF ~parses
            THEN Throw(State) /\ refused' = refused
            ELSE /\ IF goesOnToSubmit(isLive)
                    THEN pc' = "submit" /\ todo' = todo /\ work' = work
                    ELSE pc' = "work" /\ todo' = Tail(todo) /\ work' = NULL
                 /\ refused' = IF isLive THEN refused ELSE refused \cup {jobId}
                 /\ State' = State
         /\ last' = Op("verifyUrlStatus", jobId, hs, urlCheck(parses, hs), NULL)
    /\ UNCHANGED <<configFile, hist, fix, Config, disk, proc, bidReqs, subReqs, accrued>>

\* A faulty branch: 409 is handled like any other failure
submitAccepted_no409(st) == st \in {200, 201}

\* The branch of the submit response that marks the job delivered
submitAccepted(st) == st \in {200, 201, 409}

\* A faulty move: a submitted job is booked as paid at once
moveToDelivered_straightToPaid(S, job) ==
    [S EXCEPT !.paidJobs = Append(@, [job EXCEPT !.status = "delivered"]),
              !.activeJobs = FilterOut(@, job.jobId)]

\* job.status = 'delivered'; deliveredJobs.push(job); activeJobs = activeJobs.filter(...)
moveToDelivered(S, job) ==
    [S EXCEPT !.deliveredJobs = Append(@, [job EXCEPT !.status = "delivered"]),
              !.activeJobs = FilterOut(@, job.jobId)]

\* POST /jobs/{id}/submit and what follows it in the iteration
Submit ==
    /\ proc = "running" /\ pc = "submit"
    /\ LET job == Head(todo) IN
       \E st \in SubmitStatuses, fst \in MessageStatuses :
         /\ (st \notin {200, 201} \/ job.assignmentId = NULL) => fst = 201
         /\ IF st = TransportError
            THEN Throw(State)
            ELSE LET S1 == IF submitAccepted(st) THEN moveToDelivered(State, job) ELSE State
                 IN IF fst = TransportError
                    THEN Throw(S1)
                    ELSE /\ State' = S1
                         /\ pc' = "work"
                         /\ todo' = Tail(todo)
                         /\ work' = NULL
         /\ last' = Op("submit", job.jobId, st, NULL, NULL)
         /\ subReqs' = Bump(subReqs, job.jobId)
         /\ hist' = [hist EXCEPT
                       !.duePay = IF submitAccepted(st) THEN @ \cup {job.jobId} ELSE @,
                       !.locked = IF st = 409 THEN @ \cup {job.jobId} ELSE @]
    /\ UNCHANGED <<configFile, fix, Config, disk, proc, bidReqs, accrued, refused>>

\* The work loop is over; the payment check starts on a copy of deliveredJobs
WorkDone ==
    /\ proc = "running" /\ pc = "work" /\ todo = <<>>
    /\ pc' = "pay"
    /\ todo' = State.deliveredJobs
    /\ last' = Op("work.done", NULL, -1, NULL, NULL)
    /\ UNCHANGED <<configFile, hist, fix, Config, State, disk, proc, work, bidReqs, subReqs, accrued, refused>>

\* A payment check without its `closed` branch
isPaid_withoutClosed(jstatus, asgs, worker) ==
    \/ jstatus = "completed"
    \/ firstAssignment(asgs).status = "accepted"

\* The conditions under which the payment check counts a delivered job as paid
isPaid(jstatus, asgs, worker) ==
    \/ jstatus = "completed"
    \/ firstAssignment(asgs).status = "accepted"
    \/ jstatus = "closed" /\ worker

\* A faulty transition: the paid job is left in deliveredJobs
moveToPaid_keepDelivered(S, dJob) ==
    [S EXCEPT !.totalEarnings = @ + dJob.amount,
              !.paidJobs = Append(@, dJob)]

\* totalEarnings += dJob.amount; paidJobs.push(dJob); deliveredJobs = deliveredJobs.filter(...)
moveToPaid(S, dJob) ==
    [S EXCEPT !.totalEarnings = @ + dJob.amount,
              !.paidJobs = Append(@, dJob),
              !.deliveredJobs = FilterOut(@, dJob.jobId)]

\* A payment check that keeps tracking an expired job
dropExpired_keep(S, dJob) == S

\* Expired: deliveredJobs = deliveredJobs.filter(j => j.jobId !== dJob.jobId)
dropExpired(S, dJob) == [S EXCEPT !.deliveredJobs = FilterOut(@, dJob.jobId)]

\* One iteration of the payment check; a rejected request is caught inside the iteration
Pay ==
    /\ proc = "running" /\ pc = "pay" /\ todo # <<>>
    /\ LET dJob == Head(todo) IN
       \E st \in ListStatuses, jstatus \in JobStatuses, asgs \in AssignmentLists,
          worker \in BOOLEAN :
         /\ st # 200 => jstatus = "in_progress" /\ asgs = <<>> /\ ~worker
         /\ worker => jstatus = "closed"
         /\ IF st # 200 THEN State' = State
            ELSE IF isPaid(jstatus, asgs, worker) THEN State' = moveToPaid(State, dJob)
            ELSE IF jstatus = "expired" THEN State' = dropExpired(State, dJob)
            ELSE State' = State
         /\ last' = IF st # 200
                    THEN Op("paymentCheck", dJob.jobId, st, NULL, NULL)
                    ELSE OpOn("paymentCheck", dJob.jobId, st,
                              IF isPaid(jstatus, asgs, worker) THEN "paid"
                              ELSE IF jstatus = "expired" THEN "expired"
                              ELSE "unpaid",
                              firstAssignment(asgs).status,
                              jstatus, asgs, worker)
         /\ accrued' = IF st = 200 /\ isPaid(jstatus, asgs, worker)
                        THEN Bump(accrued, dJob.jobId) ELSE accrued
         /\ hist' = [hist EXCEPT
                       !.duePay = @ \ {dJob.jobId},
                       !.locked = IF st = 200 /\ isPaid(jstatus, asgs, worker)
                                  THEN @ \ {dJob.jobId} ELSE @,
                       !.expired = IF st = 200 /\ ~isPaid(jstatus, asgs, worker)
                                      /\ jstatus = "expired"
                                   THEN @ \cup {dJob.jobId} ELSE @]
    /\ pc' = "pay"
    /\ todo' = Tail(todo)
    /\ UNCHANGED <<configFile, fix, Config, disk, proc, work, bidReqs, subReqs, refused>>

\* saveState(); then the loop sleeps pollInterval seconds
Save ==
    /\ proc = "running" /\ pc = "pay" /\ todo = <<>>
    /\ disk' = saveState(Config, State)
    /\ pc' = "sleep"
    /\ last' = Op("saveState", NULL, -1, NULL, NULL)
    /\ hist' = [hist EXCEPT !.streak = 0]
    /\ UNCHANGED <<configFile, fix, Config, State, proc, todo, work, bidReqs, subReqs, accrued, refused>>

\* A catch block that would sleep without resetting the counter
afterErrorSleep_noReset(S) == S

\* The catch block after its sleep: `STATE.consecutiveErrors = 0` follows the 300 s sleep
afterErrorSleep(S) ==
    IF S.consecutiveErrors >= maxConsecutiveErrors
    THEN [S EXCEPT !.consecutiveErrors = 0]
    ELSE S

\* Which sleep the loop takes: pollInterval after saveState, 300 s in the catch block at
\* the threshold, 10 s in the catch block below it
sleepTaken(at, S) ==
    IF at = "sleep" THEN "pollInterval"
    ELSE IF S.consecutiveErrors >= maxConsecutiveErrors THEN "cooldown" ELSE "retry"

\* The sleep is over: pollInterval seconds after a saved cycle; after an error 10 s, or
\* 300 s and the counter reset once it has reached the threshold
Wake ==
    /\ proc = "running" /\ pc \in {"sleep", "errsleep"}
    /\ State' = IF pc = "errsleep" THEN afterErrorSleep(State) ELSE State
    /\ pc' = "top"
    /\ last' = Op("wake", NULL, -1, sleepTaken(pc, State), NULL)
    /\ hist' = [hist EXCEPT
                  !.streak = IF pc # "errsleep" THEN @
                             ELSE IF State.consecutiveErrors >= maxConsecutiveErrors THEN 0
                             ELSE IF @ < maxConsecutiveErrors THEN @ + 1 ELSE @,
                  !.dueWork = {},
                  !.duePay = {}]
    /\ UNCHANGED <<configFile, fix, Config, disk, proc, todo, work, bidReqs, subReqs, accrued, refused>>

----------------------------------------------------------------------------
(* calculateBidAmount on its own: the budgets a discovered job may have (null, or at
   least minBudget, in hundredths of a NEAR), the categories categorizeJob returns and
   the strategies config.json may hold. *)

Budgets == {NoBudget, 10, 26, 40, 333, 1000, 1234}

Categories ==
    {"analytics", "security", "smart-contract", "data", "bot", "backend", "frontend",
     "documentation", "testing", "general"}

Strategies == {"aggressive", "balanced", "conservative"}

\* The strings toFixed(2) may return for the job: the product is a binary floating
\* point number, so a product that is exactly halfway between two hundredths in
\* decimal may be rounded either way; every other product is rounded to the nearest.
bidAmounts(job, category, strategy) ==
    LET x == budgetOf(job) * categoryMultiplier(category) * strategyFactor(strategy)
        a == calculateBidAmount(job, category, strategy)
    IN IF budgetOf(job) > 0 /\ a > floorPrice /\ x % 10000 = 5000 THEN {a - 1, a} ELSE {a}

\* const amount = calculateBidAmount(job, category) in placeBid
Quote ==
    /\ \E b \in Budgets, category \in Categories, strategy \in Strategies :
         LET job == [Job("j1") EXCEPT !.budget_amount = b] IN
         \E amount \in bidAmounts(job, category, strategy) :
            last' = [op |-> "calculateBidAmount", jobId |-> NULL, status |-> -1,
                     obs |-> NULL, msg |-> NULL, resp |-> NoResp,
                     budget_amount |-> b, category |-> category, bidStrategy |-> strategy,
                     amount |-> amount]
    /\ UNCHANGED <<Config, State, disk, configFile, proc, pc, todo, work, bidReqs, subReqs,
                   accrued, refused, hist, fix>>

NextQuote == Quote

SpecQuote == Init /\ [][NextQuote]_vars

----------------------------------------------------------------------------
(* parseGeneratedFiles and the serialization of fixWithAI on texts made of tokens:
   "EQ" is a run of three or more `=`, "FILE:" the word FILE and its colon, "SP" a
   space, "NL" a line feed and "a" any other character.  A text is a sequence of
   tokens; the alphabet has no backquote, so the removal of code fences changes
   nothing here. *)

Tokens == {"a", "EQ", "SP", "FILE:", "NL"}
Whitespace == {"SP", "NL"}

\* The texts of at most n tokens
TextsUpTo(n) == UNION {[1..k -> Tokens] : k \in 0..n}

\* The first position from i on whose token is not in T; Len(s) + 1 if there is none
SkipFrom(s, i, T) ==
    IF \E j \in i..Len(s) : s[j] \notin T
    THEN CHOOSE j \in i..Len(s) : s[j] \notin T /\ \A k \in i..(j - 1) : s[k] \in T
    ELSE Len(s) + 1

\* /={3,}\s*FILE:\s*/ tried at position i: the position after the match, 0 if none
MatchEnd(s, i) ==
    IF s[i] # "EQ" THEN 0
    ELSE LET k == SkipFrom(s, SkipFrom(s, i, {"EQ"}), Whitespace)
         IN IF k <= Len(s) /\ s[k] = "FILE:" THEN SkipFrom(s, k + 1, Whitespace) ELSE 0

RECURSIVE split(_)
\* output.split(/={3,}\s*FILE:\s*/i)
split(s) ==
    IF \E i \in 1..Len(s) : MatchEnd(s, i) > 0
    THEN LET i == CHOOSE i \in 1..Len(s) :
                     MatchEnd(s, i) > 0 /\ \A k \in 1..(i - 1) : MatchEnd(s, k) = 0
         IN <<SubSeq(s, 1, i - 1)>> \o split(SubSeq(s, MatchEnd(s, i), Len(s)))
    ELSE <<s>>

\* String.prototype.trim
trim(s) ==
    IF \A i \in 1..Len(s) : s[i] \in Whitespace THEN <<>>
    ELSE SubSeq(s, SkipFrom(s, 1, Whitespace),
                CHOOSE j \in 1..Len(s) :
                   s[j] \notin Whitespace /\ \A k \in (j + 1)..Len(s) : s[k] \in Whitespace)

\* content.replace(/\n={3,}\s*$/g, '')
stripTrailingMarker(c) ==
    LET ends(i) == /\ c[i] = "NL"
                   /\ SkipFrom(c, i + 1, {"EQ"}) > i + 1
                   /\ SkipFrom(c, SkipFrom(c, i + 1, {"EQ"}), Whitespace) = Len(c) + 1
    IN IF \E i \in 1..Len(c) : ends(i)
       THEN SubSeq(c, 1, (CHOOSE i \in 1..Len(c) : ends(i) /\ \A k \in 1..(i - 1) : ~ends(k)) - 1)
       ELSE c

\* The body of the loop of parseGeneratedFiles for one section: the files it pushes
parseSection(section) ==
    IF \A i \in 1..Len(section) : section[i] # "NL" THEN <<>>
    ELSE LET newlineIdx == SkipFrom(section, 1, Tokens \ {"NL"})
             filePath == trim(SelectSeq(SubSeq(section, 1, newlineIdx - 1),
                                        LAMBDA t : t # "EQ"))
             content == trim(stripTrailingMarker(SubSeq(section, newlineIdx + 1, Len(section))))
         IN IF filePath # <<>> /\ content # <<>>
            THEN <<[path |-> filePath, content |-> content]>>
            ELSE <<>>

RECURSIVE parseSections(_)
parseSections(sections) ==
    IF sections = <<>> THEN <<>>
    ELSE parseSection(Head(sections)) \o parseSections(Tail(sections))

\* parseGeneratedFiles(output): the sections after the first one
parseGeneratedFiles(output) == parseSections(Tail(split(output)))

RECURSIVE serializeFiles(_)
\* files.map(f => `=== FILE: ${f.path} ===\n${f.content}`).join('\n\n') in fixWithAI
serializeFiles(files) ==
    IF files = <<>> THEN <<>>
    ELSE LET f == Head(files)
             one == <<"EQ", "SP", "FILE:", "SP">> \o f.path \o <<"SP", "EQ", "NL">> \o f.content
         IN IF Tail(files) = <<>> THEN one
            ELSE one \o <<"NL", "NL">> \o serializeFiles(Tail(files))

\* The file lists given to the serialization: one file of any content, alone or
\* followed by a second file
FileLists ==
    {<<[path |-> <<"a">>, content |-> c]>> : c \in TextsUpTo(MaxLen)}
    \cup {<<[path |-> <<"a">>, content |-> c], [path |-> <<"a", "a">>, content |-> <<"a">>]>> :
             c \in TextsUpTo(MaxLen)}

\* The current files are serialized and the text is parsed back
RoundTrip ==
    /\ \E files \in FileLists :
         last' = [op |-> "parseGeneratedFiles", jobId |-> NULL, status |-> -1, obs |-> NULL,
                  msg |-> NULL, resp |-> NoResp,
                  files |-> files, parsed |-> parseGeneratedFiles(serializeFiles(files))]
    /\ UNCHANGED <<Config, State, disk, configFile, proc, pc, todo, work, bidReqs, subReqs,
                   accrued, refused, hist, fix>>

NextParse == RoundTrip

SpecParse == Init /\ [][NextParse]_vars

----------------------------------------------------------------------------
(* doRealWork step by step.  `fix` holds its locals: the project kind decided by
   hasPackageJson / hasPythonFiles / hasRustFiles, usedAI, the loop variable attempt,
   the number of runs of the install-build-test pipeline, the number of calls of
   fixWithAI, the version of `files` (0 as generated, +1 for each fix that was merged),
   the steps for which "still failing, submitting anyway" was logged, the version of
   the files handed to `gh gist create`, and the value returned. *)

ProjectKinds == {"node", "python", "rust", "none"}

\* What fixWithAI may do: return merged files, return the originals (no parseable
\* file, or the agent command failed), or throw while writing the prompt file
FixOutcomes == {"merged", "originals", "throws"}

\* A fix loop whose test is inclusive like the loop condition
mayFix_inclusive(attempt, usedAI) == attempt <= maxFixAttempts /\ usedAI

\* if (attempt < maxFixAttempts && usedAI) in the catch blocks of build and test
mayFix(attempt, usedAI) == attempt < maxFixAttempts /\ usedAI

\* A fix round that counts a new file set whatever fixWithAI returned
fixAndContinue_alwaysMerged(f, out) ==
    IF out = "throws"
    THEN [f EXCEPT !.fixCalls = @ + 1, !.phase = "publish"]
    ELSE LET g == [f EXCEPT !.fixCalls = @ + 1, !.files = @ + 1, !.attempt = @ + 1]
         IN IF g.attempt <= maxFixAttempts
            THEN [g EXCEPT !.phase = "install", !.runs = @ + 1]
            ELSE [g EXCEPT !.phase = "publish"]

\* The corrected files of a fix round whose output can be parsed: one file, whose path
\* is that of a file of every file set of the model
FixedFiles ==
    parseGeneratedFiles(serializeFiles(<<[path |-> <<"a">>, content |-> <<"a", "a">>]>>))

\* const merged = [...files.filter(f => !fixedPaths.has(f.path)), ...fixedFiles]
mergeFiles(files, fixedFiles) ==
    SelectSeq(files, LAMBDA f : \A i \in 1..Len(fixedFiles) : fixedFiles[i].path # f.path)
    \o fixedFiles

\* A fix round whose exception would leave doRealWork
fixAndContinue_rethrow(f, out) ==
    IF out = "throws"
    THEN [f EXCEPT !.fixCalls = @ + 1, !.phase = "threw"]
    ELSE LET g == [f EXCEPT !.fixCalls = @ + 1,
                            !.files = IF out = "merged" THEN @ + 1 ELSE @,
                            !.fileSet = IF out = "merged" THEN mergeFiles(@, FixedFiles) ELSE @,
                            !.attempt = @ + 1]
         IN IF g.attempt <= maxFixAttempts
            THEN [g EXCEPT !.phase = "install", !.runs = @ + 1]
            ELSE [g EXCEPT !.phase = "publish"]

\* files = await fixWithAI(...); continue;  The call is inside the outer try of the
\* loop body, so a throw of fixWithAI is caught there and breaks the loop.  After
\* `continue` the for statement runs attempt++ and tests attempt <= maxFixAttempts.
fixAndContinue(f, out) ==
    IF out = "throws"
    THEN [f EXCEPT !.fixCalls = @ + 1, !.phase = "publish"]
    ELSE LET g == [f EXCEPT !.fixCalls = @ + 1,
                            !.files = IF out = "merged" THEN @ + 1 ELSE @,
                            !.fileSet = IF out = "merged" THEN mergeFiles(@, FixedFiles) ELSE @,
                            !.attempt = @ + 1]
         IN IF g.attempt <= maxFixAttempts
            THEN [g EXCEPT !.phase = "install", !.runs = @ + 1]
            ELSE [g EXCEPT !.phase = "publish"]

\* The catch block of the build step or of the test step
stepFailed(f, step, out) ==
    IF mayFix(f.attempt, f.usedAI)
    THEN fixAndContinue(f, out)
    ELSE [f EXCEPT !.warned = @ \cup {step},
                   !.phase = IF step = "build" THEN "test" ELSE "publish"]

\* What the generation command may print: nothing, prose without a file marker, or
\* one marked file
GeneratedOutputs ==
    {<<>>, <<"a">>, serializeFiles(<<[path |-> <<"a">>, content |-> <<"a">>]>>)}

\* The projects generateFallbackFiles returns: a TypeScript package with a
\* package.json, or files that no verification branch takes
FallbackKinds == {"node", "none"}

\* What generateFallbackFiles returns: in every branch at least two files, each with
\* a path and a content
generateFallbackFiles ==
    <<[path |-> <<"a">>, content |-> <<"a">>], [path |-> <<"a", "a">>, content |-> <<"a">>]>>

\* A generation whose template fallback is taken only when the command failed
usesFallback_onlyOnFailure(usedAI, output) == ~usedAI

\* let files = usedAI ? parseGeneratedFiles(generatedOutput) : [];
\* if (files.length === 0) files = generateFallbackFiles(activeJob)
usesFallback(usedAI, output) ==
    (IF usedAI THEN parseGeneratedFiles(output) ELSE <<>>) = <<>>

\* `files` as it is written to the work directory
generatedFiles(usedAI, output) ==
    IF usesFallback(usedAI, output) THEN generateFallbackFiles
    ELSE parseGeneratedFiles(output)

\* doRealWork(activeJob) up to the choice of the verification branch: ai tells whether
\* runKiloCommand returned (usedAI = true) or threw, output is what it returned; a
\* failure of fs.mkdirSync or fs.writeFileSync is not caught inside doRealWork
DoRealWorkBegin ==
    /\ fix.phase = "idle"
    /\ \E ai \in BOOLEAN, output \in GeneratedOutputs, kind \in ProjectKinds,
          written \in BOOLEAN :
         /\ ~ai => output = <<>>
         /\ usesFallback(ai, output) => kind \in FallbackKinds
         /\ fix' = IF ~written
                   THEN [FixIdle EXCEPT !.phase = "threw", !.kind = kind, !.usedAI = ai,
                                        !.fallback = usesFallback(ai, output),
                                        !.fileSet = generatedFiles(ai, output)]
                   ELSE [FixIdle EXCEPT
                           !.kind = kind, !.usedAI = ai,
                           !.fallback = usesFallback(ai, output),
                           !.fileSet = generatedFiles(ai, output),
                           !.phase = IF kind = "node" THEN "install"
                                     ELSE IF kind = "none" THEN "publish" ELSE "check",
                           !.runs = IF kind = "node" THEN 1 ELSE 0]
         /\ last' = [op |-> "doRealWork.begin", jobId |-> NULL, status |-> -1,
                     obs |-> IF written THEN "passed" ELSE "threw", msg |-> NULL,
                     resp |-> NoResp, usedAI |-> ai, output |-> output]
    /\ UNCHANGED <<Config, State, disk, configFile, proc, pc, todo, work, bidReqs, subReqs,
                   accrued, refused, hist>>

\* npm install: a failure is caught by the outer catch, which breaks the loop
NpmInstall ==
    /\ fix.phase = "install"
    /\ \E ok \in BOOLEAN :
         /\ fix' = [fix EXCEPT !.phase = IF ok THEN "build" ELSE "publish"]
         /\ last' = Op("install", NULL, -1, IF ok THEN "passed" ELSE "failed", NULL)
    /\ UNCHANGED <<Config, State, disk, configFile, proc, pc, todo, work, bidReqs, subReqs,
                   accrued, refused, hist>>

\* What fixWithAI did in the catch block of a step: null when it was not called
fixAsked(f, ok, out) ==
    IF ~ok /\ mayFix(f.attempt, f.usedAI) THEN out ELSE NULL

\* npm run build
NpmBuild ==
    /\ fix.phase = "build"
    /\ \E ok \in BOOLEAN, out \in FixOutcomes :
         /\ ok => out = "originals"
         /\ fix' = IF ok THEN [fix EXCEPT !.phase = "test"] ELSE stepFailed(fix, "build", out)
         /\ last' = Op("build", NULL, -1, IF ok THEN "passed" ELSE "failed", fixAsked(fix, ok, out))
    /\ UNCHANGED <<Config, State, disk, configFile, proc, pc, todo, work, bidReqs, subReqs,
                   accrued, refused, hist>>

\* npm test, then `break`
NpmTest ==
    /\ fix.phase = "test"
    /\ \E ok \in BOOLEAN, out \in FixOutcomes :
         /\ ok => out = "originals"
         /\ fix' = IF ok THEN [fix EXCEPT !.phase = "publish"] ELSE stepFailed(fix, "test", out)
         /\ last' = Op("test", NULL, -1, IF ok THEN "passed" ELSE "failed", fixAsked(fix, ok, out))
    /\ UNCHANGED <<Config, State, disk, configFile, proc, pc, todo, work, bidReqs, subReqs,
                   accrued, refused, hist>>

\* The Python and Rust branches: checks in try/catch, no fix
OtherChecks ==
    /\ fix.phase = "check"
    /\ \E ok \in BOOLEAN :
         /\ fix' = [fix EXCEPT !.phase = "publish",
                               !.warned = IF ok THEN @ ELSE @ \cup {"check"}]
         /\ last' = Op("check", NULL, -1, IF ok THEN "passed" ELSE "failed", NULL)
    /\ UNCHANGED <<Config, State, disk, configFile, proc, pc, todo, work, bidReqs, subReqs,
                   accrued, refused, hist>>

\* deliverable.md is written (not caught), then `gh gist create --public` in try/catch
GistCreate ==
    /\ fix.phase = "publish"
    /\ \E written \in BOOLEAN, g \in GistOutcomes :
         /\ ~written => g = "fails"
         /\ fix' = IF ~written THEN [fix EXCEPT !.phase = "threw"]
                   ELSE [fix EXCEPT !.phase = "done", !.published = fix.files,
                                    !.result = publishResult(g)]
         /\ last' = Op("gist", NULL, -1, IF written THEN g ELSE "threw", NULL)
    /\ UNCHANGED <<Config, State, disk, configFile, proc, pc, todo, work, bidReqs, subReqs,
                   accrued, refused, hist>>

\* doRealWork has returned or thrown; the next call starts from fresh locals
DoRealWorkEnd ==
    /\ fix.phase \in {"done", "threw"}
    /\ fix' = FixIdle
    /\ last' = Op("doRealWork.end", NULL, -1, NULL, NULL)
    /\ UNCHANGED <<Config, State, disk, configFile, proc, pc, todo, work, bidReqs, subReqs,
                   accrued, refused, hist>>

NextWork ==
    \/ DoRealWorkBegin \/ NpmInstall \/ NpmBuild \/ NpmTest \/ OtherChecks
    \/ GistCreate \/ DoRealWorkEnd

SpecWork == Init /\ [][NextWork]_vars

\* The steps of the build & test verification
ValidationSteps == NpmInstall \/ NpmBuild \/ NpmTest \/ OtherChecks

\* Every step of the verification is a synchronous execSync with a timeout (and the
\* fix command in its catch block is one too), so a step that can be taken is taken
SpecWorkFair == SpecWork /\ WF_vars(ValidationSteps)

----------------------------------------------------------------------------
(* The lines an operation appends to the log, named by the start of their text.  A
   transport error in findJobs, placeBid, checkBids or the submit request reaches the
   catch block of the cycle, which logs "Loop error"; the rework check and the payment
   check catch it themselves. *)

logLines(l) ==
    CASE l.op = "findJobs" ->
           {"Cycle", "Scanning"} \cup
             (IF l.status = TransportError THEN {"Loop error"}
              ELSE IF l.status # 200 THEN {"Job fetch failed"} ELSE {"Found"})
      [] l.op = "placeBid" ->
           {"Bidding"} \cup (IF l.status = TransportError THEN {"Loop error"} ELSE {})
      [] l.op = "checkBids" ->
           IF l.status = TransportError THEN {"Loop error"} ELSE {}
      [] l.op = "checkBids.award" ->
           {"BID ACCEPTED"} \cup (IF l.status = TransportError THEN {"Loop error"} ELSE {})
      [] l.op = "requestChanges" ->
           {"REQUEST-CHANGES"}
             \cup (IF l.status = TransportError THEN {"Request-changes check error"} ELSE {})
             \cup (IF l.msg # NULL THEN {"Feedback"} ELSE {})
      [] l.op = "checkChanges" ->
           IF l.status = TransportError THEN {"Request-changes check error"}
           ELSE IF l.status # 200 THEN {}
           ELSE IF l.obs = "disputed" THEN {"DISPUTED"}
           ELSE {}
      [] l.op = "verifyUrlStatus" ->
           {"Submitting deliverable"} \cup (IF l.obs = "dead" THEN {"ABORT"} ELSE {})
      [] l.op = "submit" ->
           IF l.status = TransportError THEN {"Loop error"}
           ELSE IF l.status \in {200, 201} THEN {}
           ELSE IF l.status = 409 THEN {"Conflict (409)"}
           ELSE {"Delivery failed"}
      [] l.op = "paymentCheck" ->
           IF l.status = TransportError THEN {"Payment check error"}
           ELSE IF l.status # 200 THEN {}
           ELSE IF l.obs = "paid" THEN {"PAID"}
           ELSE IF l.obs = "expired" THEN {"Job expired"}
           ELSE {}
      [] l.op = "saveState" -> {"State saved"}
      [] OTHER -> {}

----------------------------------------------------------------------------

(* The environments the specifications are checked in: the jobs the marketplace may
   list as open, the jobs on which it may report the agent's bid as accepted, and the
   number of cycles a process may start. *)

EnvOneJob == [listed |-> {"j1"}, accepted |-> {"j1"}, cycles |-> MaxCycles]
EnvBidding == [listed |-> ListedJobIds, accepted |-> {}, cycles |-> MaxCycles]
EnvAwards == [listed |-> {}, accepted |-> JobIds, cycles |-> MaxCycles]
EnvOneAward == [listed |-> {}, accepted |-> {"j1"}, cycles |-> MaxCycles]
EnvIdle == [listed |-> {}, accepted |-> {}, cycles |-> MaxIdleCycles]
EnvFirstCycle == [listed |-> {}, accepted |-> JobIds, cycles |-> 1]

\* The steps of a cycle that handle a tracked job
JobSteps ==
    \/ Award \/ RequestChanges \/ Work \/ Verify \/ Submit \/ Pay

\* The steps of a cycle that are taken whether or not there is a job to handle
LoopSteps ==
    \/ AwardDone \/ RequestChangesDone \/ WorkDone \/ Save \/ Wake

\* One job, bid for and tracked; the process may be ended and started again, and
\* reset-bids may be run at any time
Next ==
    \/ Start \/ Kill \/ ResetBids
    \/ CycleStart(EnvOneJob) \/ PlaceBid \/ CheckBids(EnvOneJob)
    \/ JobSteps \/ LoopSteps

\* Bidding only (no bid is ever accepted), with restarts and reset-bids
NextBidding ==
    \/ Start \/ Kill \/ ResetBids
    \/ CycleStart(EnvBidding) \/ PlaceBid \/ CheckBids(EnvBidding)
    \/ LoopSteps

\* Bidding only, the process may be ended and started again, reset-bids is never run
NextRestart ==
    \/ Start \/ Kill
    \/ CycleStart(EnvBidding) \/ PlaceBid \/ CheckBids(EnvBidding)
    \/ LoopSteps

\* Bidding only, one run of the process
NextRun ==
    \/ Start
    \/ CycleStart(EnvBidding) \/ PlaceBid \/ CheckBids(EnvBidding)
    \/ LoopSteps

\* One run of the process in which the marketplace lists no open job and may report
\* accepted bids on both jobs
NextAwards ==
    \/ Start
    \/ CycleStart(EnvAwards) \/ CheckBids(EnvAwards)
    \/ JobSteps \/ LoopSteps

\* The first cycle of a process started on empty collections, in which the marketplace
\* may report accepted bids on both jobs.  deliveredJobs is empty when the rework check
\* runs, so its loop body is not entered.
NextFirstCycle ==
    \/ Start
    \/ CycleStart(EnvFirstCycle) \/ CheckBids(EnvFirstCycle)
    \/ Award \/ Work \/ Verify \/ Submit \/ Pay
    \/ LoopSteps

\* One run of the process: one job, bid for and tracked through its whole lifecycle
NextLife ==
    \/ Start
    \/ CycleStart(EnvOneJob) \/ PlaceBid \/ CheckBids(EnvOneJob)
    \/ JobSteps \/ LoopSteps

\* One job whose bid may be reported accepted; the process may be ended and started again
NextCrash ==
    \/ Start \/ Kill
    \/ CycleStart(EnvOneAward) \/ CheckBids(EnvOneAward)
    \/ JobSteps \/ LoopSteps

\* One run of the process while the marketplace lists no job and accepts no bid
NextIdle ==
    \/ Start
    \/ CycleStart(EnvIdle) \/ CheckBids(EnvIdle)
    \/ LoopSteps

\* One run of the process while the marketplace has no job for it; the stop command
\* may be run at any time
NextStop ==
    \/ Start \/ Stop
    \/ CycleStart(EnvIdle) \/ CheckBids(EnvIdle)
    \/ LoopSteps

Spec == Init /\ [][Next]_vars

SpecStop == Init /\ [][NextStop]_vars

SpecCrash == Init /\ [][NextCrash]_vars

SpecIdle == Init /\ [][NextIdle]_vars

SpecLife == Init /\ [][NextLife]_vars

SpecBidding == Init /\ [][NextBidding]_vars

SpecRestart == Init /\ [][NextRestart]_vars

SpecRun == Init /\ [][NextRun]_vars

SpecAwards == Init /\ [][NextAwards]_vars

SpecOneJobConfig == InitOneJobConfig /\ [][NextFirstCycle]_vars

----------------------------------------------------------------------------
(* Properties *)

\* The entries of a collection that carry the job id j
EntriesOf(jobs, j) == {i \in 1..Len(jobs) : jobs[i].jobId = j}

RECURSIVE SumAmounts(_)
\* The sum of amount over the entries of a collection
SumAmounts(jobs) ==
    IF jobs = <<>> THEN 0 ELSE Head(jobs).amount + SumAmounts(Tail(jobs))

\* j is in activeJobs, and every entry of it there has status awarded
AwardedInActive(j) ==
    /\ HasJob(State.activeJobs, j)
    /\ \A i \in EntriesOf(State.activeJobs, j) : State.activeJobs[i].status = "awarded"

\* C1: in a run of the process in which reset-bids is never invoked, at most one
\* POST /jobs/{id}/bids request is issued per job id.
C1_AtMostOneBidRequestPerJob ==
    \A j \in JobIds : bidReqs[j] <= 1

\* C2: after every invocation of placeBid, whatever the outcome of the request (2xx,
\* non-2xx, transport failure), the job's id is a member of alreadyBidJobIds.
C2_BidAttemptAlwaysRecorded ==
    last.op = "placeBid" => last.jobId \in Range(Config.alreadyBidJobIds)

\* C3: totalEarnings is increased by a job's cached amount exactly once, when the job
\* moves from deliveredJobs to paidJobs, and never again: totalEarnings is the sum of
\* amount over paidJobs, no job is paid twice, and a job just found paid is in
\* paidJobs and not in deliveredJobs.
C3_EarningsAccruedOncePerJob ==
    /\ State.totalEarnings = SumAmounts(State.paidJobs)
    /\ \A j \in JobIds :
         /\ accrued[j] <= 1
         /\ Cardinality(EntriesOf(State.paidJobs, j)) = accrued[j]
    /\ (last.op = "paymentCheck" /\ last.obs = "paid") =>
         /\ HasJob(State.paidJobs, last.jobId)
         /\ ~HasJob(State.deliveredJobs, last.jobId)

\* A delivered job has just been found paid and its amount is in totalEarnings
C3_Witness ==
    /\ last.op = "paymentCheck" /\ last.obs = "paid"
    /\ accrued[last.jobId] = 1
    /\ State.totalEarnings >= bidAmount(last.jobId)
    /\ State.totalEarnings > 0

\* C4: when the submit request for an awarded job returns 200, 201 or 409 the job is
\* removed from activeJobs and is in deliveredJobs with status delivered; for any
\* other outcome it stays in activeJobs with status awarded and is not in deliveredJobs.
C4_SubmitOutcome ==
    last.op = "submit" =>
        IF last.status \in {200, 201, 409}
        THEN /\ ~HasJob(State.activeJobs, last.jobId)
             /\ Cardinality(EntriesOf(State.deliveredJobs, last.jobId)) = 1
             /\ \A i \in EntriesOf(State.deliveredJobs, last.jobId) :
                  State.deliveredJobs[i].status = "delivered"
        ELSE /\ AwardedInActive(last.jobId)
             /\ ~HasJob(State.deliveredJobs, last.jobId)

\* A submit request answered 409 has left the job in deliveredJobs
C4_Witness ==
    /\ last.op = "submit" /\ last.status = 409
    /\ HasJob(State.deliveredJobs, last.jobId)

\* C5: a submit request is issued only right after verifyUrlStatus returned true for
\* the deliverable of the same job (a status in 200..399); when it returned false the
\* deliverable is discarded, no submit request is made for the job in that cycle, and
\* the job is in activeJobs with status awarded, up to and including the end of the cycle.
C5_PreflightGate ==
    /\ pc = "submit" =>
         /\ last.op = "verifyUrlStatus" /\ last.obs = "live"
         /\ last.status >= 200 /\ last.status < 400
         /\ last.jobId = Head(todo).jobId
         /\ work # NULL
    /\ (last.op = "verifyUrlStatus" /\ last.obs = "dead") =>
         /\ pc # "submit"
         /\ work = NULL
         /\ last.jobId \in refused
    /\ last.op = "submit" => last.jobId \notin refused
    /\ \A j \in refused :
         /\ AwardedInActive(j)
         /\ ~HasJob(State.deliveredJobs, j)

\* A cycle in which the URL check failed for a job has completed
C5_Witness ==
    /\ pc = "sleep"
    /\ refused # {}
    /\ subReqs = [j \in JobIds |-> 0]

\* C6: when checkForRequestChanges finds the assignment of a delivered job in_progress,
\* the job is removed from deliveredJobs and is in activeJobs with status awarded and
\* messageSent true, and the body of the latest assignment message, if there is one,
\* is stored on the job; a delivered job it leaves alone was not seen in_progress.
C6_RequestChanges ==
    /\ last.op = "requestChanges" =>
         /\ last.obs = "in_progress"
         /\ ~HasJob(State.deliveredJobs, last.jobId)
         /\ Cardinality(EntriesOf(State.activeJobs, last.jobId)) = 1
         /\ \A i \in EntriesOf(State.activeJobs, last.jobId) :
              /\ State.activeJobs[i].status = "awarded"
              /\ State.activeJobs[i].messageSent
              /\ last.msg # NULL => State.activeJobs[i].changesFeedback = last.msg
    /\ (last.op = "checkChanges" /\ last.status = 200) => last.obs # "in_progress"

\* A delivered job has been sent back with the latest message of its thread
C6_Witness ==
    /\ last.op = "requestChanges"
    /\ last.msg = "fix"
    /\ HasJob(State.activeJobs, last.jobId)

\* C7 as stated: the job ids in alreadyBidJobIds, activeJobs, deliveredJobs and
\* paidJobs are pairwise disjoint in every state.
C7_AllFourDisjoint ==
    LET bid == Range(Config.alreadyBidJobIds)
        act == IdsOf(State.activeJobs)
        del == IdsOf(State.deliveredJobs)
        paid == IdsOf(State.paidJobs)
    IN /\ bid \cap act = {} /\ bid \cap del = {} /\ bid \cap paid = {}
       /\ act \cap del = {} /\ act \cap paid = {} /\ del \cap paid = {}

\* C7: the job ids in activeJobs, deliveredJobs and paidJobs are pairwise disjoint in
\* every state (alreadyBidJobIds keeps the id of every job bid on, tracked or not).
C7_TrackedCollectionsDisjoint ==
    LET act == IdsOf(State.activeJobs)
        del == IdsOf(State.deliveredJobs)
        paid == IdsOf(State.paidJobs)
    IN act \cap del = {} /\ act \cap paid = {} /\ del \cap paid = {}

\* A job the agent bid on has been sent back from deliveredJobs to activeJobs
C7_Witness ==
    /\ last.op = "requestChanges"
    /\ last.jobId \in Range(Config.alreadyBidJobIds)
    /\ HasJob(State.activeJobs, last.jobId)

\* C8: every job id appears in at most one of pendingBids, activeJobs, deliveredJobs
\* and paidJobs, in every state.
C8_AtMostOneCollection ==
    \A j \in JobIds :
        Cardinality({c \in {"pending", "active", "delivered", "paid"} :
                        \/ c = "pending" /\ j \in IdsOf(State.pendingBids)
                        \/ c = "active" /\ j \in IdsOf(State.activeJobs)
                        \/ c = "delivered" /\ j \in IdsOf(State.deliveredJobs)
                        \/ c = "paid" /\ j \in IdsOf(State.paidJobs)}) <= 1

\* C9: a job submitted more than once (a resubmission answered 409 included) has at
\* most one entry in deliveredJobs and its amount was added to totalEarnings at most once.
C9_IdempotentSubmission ==
    \A j \in JobIds :
        subReqs[j] >= 2 =>
            /\ Cardinality(EntriesOf(State.deliveredJobs, j)) <= 1
            /\ accrued[j] <= 1

\* The second submit request for a job has been answered 409
C9_Witness ==
    /\ last.op = "submit" /\ last.status = 409
    /\ subReqs[last.jobId] = 2
    /\ Cardinality(EntriesOf(State.deliveredJobs, last.jobId)) = 1

\* C10: alreadyBidJobIds never loses a member between two states with no reset-bids
\* in between, the reload of the saved state by a restarted process included.
C10_AlreadyBidMonotonic ==
    [][Range(Config.alreadyBidJobIds) \subseteq Range(Config'.alreadyBidJobIds)]_vars

\* C11: a process started again after the process stopped at any point of a cycle
\* never issues a bid request for a job for which a bid request had been issued
\* before the stop.
C11_NoDuplicateBidAcrossRestart ==
    last.op = "placeBid" => last.jobId \notin hist.bidBefore

\* The job ids in activeJobs, deliveredJobs and paidJobs
TrackedIds(S) == IdsOf(S.activeJobs) \cup IdsOf(S.deliveredJobs) \cup IdsOf(S.paidJobs)

C13_SnapshotEqualsMemoryAtSleep ==
    pc \in {"sleep", "errsleep"} => disk = saveState(Config, State)

\* C14: once the stop command has been run while the loop is running, the loop
\* starts no other cycle: the cycle in progress is completed and none is begun.
C14_NoCycleStartsAfterStop ==
    [][(hist.stopAsked /\ proc = "running") => State'.cycleCount <= State.cycleCount]_vars

\* C15: the long cooldown is entered only when the failing cycle that enters it
\* completes a run of maxConsecutiveErrors failing cycles with no successfully
\* completed cycle among them (hist.streak counts the failing cycles in a row that
\* ended before the current one, since the last saved cycle or the last cooldown).
C15_CooldownOnlyAfterConsecutiveErrors ==
    (pc = "errsleep" /\ State.consecutiveErrors >= maxConsecutiveErrors)
        => hist.streak + 1 >= maxConsecutiveErrors

C17_PerJobIsolation ==
    (/\ last.op \in {"placeBid", "checkBids.award", "checkChanges", "requestChanges",
                     "verifyUrlStatus", "submit", "paymentCheck"}
     /\ last.status \notin {200, 201})
        => pc \notin {"errsleep", "exit"}

\* C18: in one run of doRealWork fixWithAI is called at most maxFixAttempts (2) times
\* and the install-build-test pipeline runs at most maxFixAttempts + 1 (3) times, for
\* attempts 0, 1 and 2; a build or test that fails at the last attempt calls no fix,
\* logs the warning for that step, keeps the files and goes on (build to the test
\* step, test to the publication), and the files published are the last-known ones.
C18_BoundedFixLoop ==
    [][/\ fix'.fixCalls <= maxFixAttempts
       /\ fix'.runs <= maxFixAttempts + 1
       /\ fix'.attempt \in 0..maxFixAttempts
       /\ fix'.runs \in {0, fix'.attempt + 1}
       /\ (fix.phase \in {"build", "test"} /\ fix.attempt = maxFixAttempts
             /\ last'.obs = "failed")
            => /\ fix'.phase = (IF fix.phase = "build" THEN "test" ELSE "publish")
               /\ fix.phase \in fix'.warned
               /\ fix'.files = fix.files
               /\ fix'.fixCalls = fix.fixCalls
       /\ fix'.phase = "done" => fix'.published = fix'.files]_vars

\* The build failed at attempts 0 and 1 and was fixed twice, build and test both failed
\* at attempt 2, and the files of the second fix were published
C18_Witness ==
    /\ fix.phase = "done"
    /\ fix.fixCalls = maxFixAttempts /\ fix.runs = maxFixAttempts + 1
    /\ fix.warned = {"build", "test"}
    /\ fix.files = 2 /\ fix.published = 2
    /\ fix.result = "url"

\* C19: when the publication fails, doRealWork returns null, never another location;
\* the iteration ends there, so in that cycle no pre-flight check and no submit request
\* is made for the job, which stays in activeJobs with status awarded until the cycle
\* ends (and in the snapshot the cycle saves); and an awarded job is never skipped by
\* the work loop, so it is attempted again in the next cycle.
C19_PublishFailureLeavesJobAwarded ==
    /\ (last.op = "doRealWork" /\ last.jobId \in hist.publishFailed)
          => /\ last.obs = NULL /\ work = NULL
             /\ pc = "work"
             /\ \A i \in 1..Len(todo) : todo[i].jobId # last.jobId
    /\ last.op \in {"verifyUrlStatus", "submit"} => last.jobId \notin hist.publishFailed
    /\ pc \in {"verify", "submit"} => work = "url" /\ Head(todo).jobId \notin hist.publishFailed
    /\ \A j \in hist.publishFailed :
          /\ pc \in {"work", "verify", "submit", "pay", "sleep"}
               => /\ HasJob(State.activeJobs, j) /\ ~HasJob(State.deliveredJobs, j)
                  /\ \A i \in EntriesOf(State.activeJobs, j) : State.activeJobs[i].status = "awarded"
          /\ pc = "sleep"
               => /\ HasJob(disk.state.activeJobs, j)
                  /\ \A i \in EntriesOf(disk.state.activeJobs, j) :
                        disk.state.activeJobs[i].status = "awarded"
    /\ last.op = "work.skip"
          => \A i \in EntriesOf(State.activeJobs, last.jobId) :
                State.activeJobs[i].status # "awarded"

\* The publication for j1 failed, the cycle went on to its end without a submit request
\* and saved j1 as an awarded job of activeJobs
C19_Witness ==
    /\ pc = "sleep" /\ last.op = "saveState"
    /\ "j1" \in hist.publishFailed
    /\ subReqs["j1"] = 0
    /\ HasJob(disk.state.activeJobs, "j1")

\* C20: a delivered job whose assignment is observed as disputed, by the rework check
\* or by the payment check, is left in deliveredJobs by that check: it is not moved to
\* activeJobs or paidJobs and not removed.
C20_DisputedJobLeftUntouched ==
    (\/ last.op \in {"checkChanges", "requestChanges"} /\ last.obs = "disputed"
     \/ last.op = "paymentCheck" /\ last.msg = "disputed")
        => /\ HasJob(State.deliveredJobs, last.jobId)
           /\ ~HasJob(State.activeJobs, last.jobId)
           /\ ~HasJob(State.paidJobs, last.jobId)

\* The paid conditions as the job detail read by the last operation shows them: job
\* status completed, or the agent's assignment (the first of my_assignments) accepted,
\* or job status closed with a worker assigned
SeenPaid(r) ==
    \/ r.status = "completed"
    \/ (r.my_assignments # <<>> /\ r.my_assignments[1].status = "accepted")
    \/ (r.status = "closed" /\ r.worker)

\* C21: an iteration of the payment check moves its job from deliveredJobs to paidJobs
\* if and only if the job detail it read (status 200) shows one of the paid conditions;
\* in every other case totalEarnings and the earnings accrued for the job are unchanged.
C21_PaidIffPaidCondition ==
    [][(pc = "pay" /\ todo # <<>> /\ last'.op = "paymentCheck") =>
         LET j == last'.jobId
             moved == /\ HasJob(State.deliveredJobs, j) /\ ~HasJob(State.paidJobs, j)
                      /\ ~HasJob(State'.deliveredJobs, j) /\ HasJob(State'.paidJobs, j)
             seen == last'.status = 200 /\ SeenPaid(last'.resp)
         IN /\ moved <=> seen
            /\ ~seen => /\ State'.totalEarnings = State.totalEarnings
                        /\ State'.paidJobs = State.paidJobs
                        /\ accrued' = accrued
            /\ seen => State'.totalEarnings = State.totalEarnings + Head(todo).amount]_vars

\* A payment check read a closed job with a worker assigned and moved it to paidJobs
C21_Witness ==
    /\ last.op = "paymentCheck" /\ last.status = 200
    /\ last.resp.status = "closed" /\ last.resp.worker
    /\ last.resp.my_assignments # <<>> /\ last.resp.my_assignments[1].status = "submitted"
    /\ HasJob(State.paidJobs, last.jobId) /\ ~HasJob(State.deliveredJobs, last.jobId)

\* C22: when an iteration of the payment check reads job status expired and none of
\* the paid conditions, its job is removed from deliveredJobs, activeJobs and paidJobs
\* are unchanged by the check, and totalEarnings is unchanged.
C22_ExpiredJobRemoved ==
    [][(/\ pc = "pay" /\ todo # <<>> /\ last'.op = "paymentCheck" /\ last'.status = 200
        /\ last'.resp.status = "expired"
        /\ ~(last'.resp.my_assignments # <<>>
               /\ last'.resp.my_assignments[1].status = "accepted")) =>
         /\ HasJob(State.deliveredJobs, last'.jobId)
         /\ ~HasJob(State'.deliveredJobs, last'.jobId)
         /\ State'.paidJobs = State.paidJobs
         /\ State'.activeJobs = State.activeJobs
         /\ State'.totalEarnings = State.totalEarnings
         /\ accrued' = accrued]_vars

\* A delivered job was read as expired with a submitted assignment and is tracked no more
C22_Witness ==
    /\ last.op = "paymentCheck" /\ last.status = 200
    /\ last.resp.status = "expired"
    /\ last.resp.my_assignments # <<>> /\ last.resp.my_assignments[1].status = "submitted"
    /\ last.jobId \notin TrackedIds(State)
    /\ State.totalEarnings = 0

\* The multipliers and factors as the specification states them, in hundredths
ClaimedMultiplier(category) ==
    CASE category = "security" -> 55
      [] category = "smart-contract" -> 50
      [] category = "analytics" -> 45
      [] category = "backend" -> 45
      [] category = "documentation" -> 35
      [] category = "testing" -> 35
      [] OTHER -> 40

ClaimedFactor(strategy) ==
    IF strategy = "aggressive" THEN 75 ELSE IF strategy = "conservative" THEN 135 ELSE 100

\* amount (hundredths) is max(budget x multiplier x factor, floorPrice) rounded to two
\* decimal places: it is within half a hundredth of the larger of the two
IsClaimedAmount(budget, category, strategy, amount) ==
    LET p == budget * ClaimedMultiplier(category) * ClaimedFactor(strategy)
        x == IF p >= floorPrice * 10000 THEN p ELSE floorPrice * 10000
        d == amount * 10000 - x
    IN -5000 <= d /\ d <= 5000

\* C23 as stated: for every discovered job, a job with no budget included (budget 0),
\* the bid amount is max(budget x categoryMultiplier x strategyFactor, floorPrice)
\* rounded to two decimal places.
C23_BidAmountFormula ==
    last.op = "calculateBidAmount"
        => IsClaimedAmount(IF last.budget_amount = NoBudget THEN 0 ELSE last.budget_amount,
                           last.category, last.bidStrategy, last.amount)

\* C23 amended: for a discovered job with a budget the bid amount is
\* max(budget x categoryMultiplier x strategyFactor, floorPrice) rounded to two decimal
\* places (3.75 for budget 10.0, multiplier 0.5, aggressive); for a discovered job
\* with no budget it is the fixed amount 0.80.
C23_BidAmountFormulaWithBudget ==
    last.op = "calculateBidAmount"
        => /\ last.budget_amount # NoBudget
                => IsClaimedAmount(last.budget_amount, last.category, last.bidStrategy,
                                   last.amount)
           /\ last.budget_amount = NoBudget => last.amount = zeroBudgetBid
           /\ (last.budget_amount = 1000 /\ last.category = "smart-contract"
                 /\ last.bidStrategy = "aggressive") => last.amount = 375

\* Budget 10.0, multiplier 0.5, aggressive: 3.75
C23_Witness ==
    /\ last.op = "calculateBidAmount"
    /\ last.budget_amount = 1000 /\ last.category = "smart-contract"
    /\ last.bidStrategy = "aggressive" /\ last.amount = 375

\* A content the round trip can be asked to keep: not empty, no white space at its
\* ends, no `\n===` at its end, no marker at the start of the text or of a line, and
\* no FILE: as its first word
PlainContent(c) ==
    /\ c # <<>> /\ c[1] \notin {"SP", "NL", "FILE:"} /\ c[Len(c)] \notin {"SP", "NL"}
    /\ \A i \in 1..Len(c) :
          c[i] = "EQ" => /\ i > 1 /\ c[i - 1] # "NL"
                         /\ \E k \in (i + 1)..Len(c) : c[k] \notin {"EQ", "SP", "NL"}

\* C24: parsing the serialization of a list of files returns the identical list, also
\* when a content holds a marker-like substring that is not at the start of a line
\* (stated here for contents that are not empty and have no white space at their ends).
C24_ParseOfSerializeIsIdentity ==
    (last.op = "parseGeneratedFiles"
       /\ \A i \in 1..Len(last.files) : PlainContent(last.files[i].content))
        => last.parsed = last.files

\* C25: no deliverable is submitted unless an internal evaluator has scored it at
\* least 95 out of 100 beforehand.
C25_NoSubmitWithoutScore ==
    last.op = "submit" => last.jobId \in hist.scored

\* C26: no failure is silent: an operation on the marketplace that failed (a bid
\* answered with a non-2xx status, a failed fetch of the jobs, of the bids list or of
\* a job detail, a failed submit, a transport error) has appended at least one line
\* to the log.
C26_NoSilentFailure ==
    (/\ last.op \in {"findJobs", "placeBid", "checkBids", "checkBids.award", "checkChanges",
                     "requestChanges", "submit", "paymentCheck"}
     /\ last.status \notin {200, 201})
        => logLines(last) # {}

\* C27: the first cycle that starts after a reset-bids command has completed runs its
\* findJobs with none of the ids that were recorded as bid when the command was run,
\* whether the process was started after the command or was already running.
C27_NextCycleAfterResetBidsOnAll ==
    [][(hist.resetPending /\ last'.op = "findJobs")
          => Range(Config.alreadyBidJobIds) \cap hist.bidAtReset = {}]_vars

\* The statuses of the entries of a collection
StatusesOf(jobs) == {jobs[i].status : i \in 1..Len(jobs)}

\* The step of the running process moves job j only along awarded->delivered,
\* delivered->awarded, delivered->paid and delivered->removed (expired)
LegalMove(j) ==
    LET a  == HasJob(State.activeJobs, j)
        d  == HasJob(State.deliveredJobs, j)
        p  == HasJob(State.paidJobs, j)
        a2 == HasJob(State'.activeJobs, j)
        d2 == HasJob(State'.deliveredJobs, j)
        p2 == HasJob(State'.paidJobs, j)
    IN /\ (a /\ ~a2) => (d2 /\ ~p2)
       /\ p => (p2 /\ ~a2 /\ ~d2)
       /\ (~p /\ p2) => (d /\ ~d2 /\ ~a2)
       /\ (~d /\ d2) => (a /\ ~a2)
       /\ (~a /\ a2) => (d /\ ~d2) \/ (~d /\ ~p /\ last'.op = "checkBids.award")
       /\ (d /\ ~d2 /\ ~a2 /\ ~p2)
             => (last'.op = "paymentCheck" /\ last'.obs = "expired" /\ last'.jobId = j)

\* C28: in every step of the running process a tracked job moves only from awarded
\* (activeJobs) to delivered (deliveredJobs), from delivered back to awarded on a
\* request for changes, from delivered to paidJobs, or from delivered out of tracking
\* when the job expired: a job in activeJobs never goes directly to paidJobs or out of
\* tracking, a job in paidJobs never leaves paidJobs nor re-enters activeJobs or
\* deliveredJobs, and every entry of activeJobs has status awarded and every entry of
\* deliveredJobs status delivered.
C28_OnlyLifecycleTransitions ==
    [][last'.op # "start"
         => /\ \A j \in JobIds : LegalMove(j)
            /\ StatusesOf(State'.activeJobs) \subseteq {"awarded"}
            /\ StatusesOf(State'.deliveredJobs) \subseteq {"delivered"}]_vars

\* C28 witness: a delivered job was sent back with feedback (delivered->awarded), has
\* been submitted again and is in deliveredJobs only (awarded->delivered)
C28_Witness ==
    /\ last.op = "submit"
    /\ \E i \in 1..Len(State.deliveredJobs) :
          /\ State.deliveredJobs[i].jobId = last.jobId
          /\ State.deliveredJobs[i].changesFeedback # NULL
    /\ ~HasJob(State.activeJobs, last.jobId)
    /\ ~HasJob(State.paidJobs, last.jobId)

\* No two entries of the collection have the same job id
NoTwin(jobs) == \A i, k \in 1..Len(jobs) : jobs[i].jobId = jobs[k].jobId => i = k

\* The assignment id the claim gives the new entry for the my_assignments read: that of
\* an assignment in progress if there is one, else that of the first, else null
IsClaimedAssignment(id, asgs) ==
    IF \E i \in 1..Len(asgs) : asgs[i].status = "in_progress"
    THEN \E i \in 1..Len(asgs) : asgs[i].status = "in_progress" /\ asgs[i].assignment_id = id
    ELSE IF asgs # <<>> THEN id = asgs[1].assignment_id
    ELSE id = NULL

\* C29: when checkBids handles an accepted bid whose job is in none of activeJobs,
\* deliveredJobs and paidJobs, it appends exactly one entry for that job to activeJobs,
\* with status awarded, messageSent false and the assignment in progress if there is
\* one, else the first (null when there is none or the job-detail fetch failed); when
\* the job is already tracked it changes no collection; and activeJobs never holds two
\* entries with the same job id.
C29_OneTrackedJobPerAcceptedBid ==
    [][(proc = "running" /\ pc = "award" /\ todo # <<>> /\ proc' = "running")
         => LET jobId == Head(todo)
                asgs == last'.resp.my_assignments
                n == Len(State.activeJobs)
            IN /\ NoTwin(State'.activeJobs)
               /\ IF untracked(State, jobId)
                  THEN /\ Len(State'.activeJobs) = n + 1
                       /\ SubSeq(State'.activeJobs, 1, n) = State.activeJobs
                       /\ State'.activeJobs[n + 1].jobId = jobId
                       /\ State'.activeJobs[n + 1].status = "awarded"
                       /\ State'.activeJobs[n + 1].messageSent = FALSE
                       /\ IsClaimedAssignment(State'.activeJobs[n + 1].assignmentId, asgs)
                  ELSE State'.activeJobs = State.activeJobs
               /\ State'.deliveredJobs = State.deliveredJobs
               /\ State'.paidJobs = State.paidJobs]_vars

\* C30: in a run of doRealWork whose files come from the template fallback (the
\* generation command failed, or its output held no parseable file), fixWithAI is never
\* called.
C30_NoFixOfFallbackFiles == fix.fallback => fix.fixCalls = 0

\* The step was a failed build or test whose fix round gave back the original files
\* (no parseable corrected file, or the fix command failed)
NoOpFixRound == last'.op \in {"build", "test"} /\ last'.msg = "originals"

\* C31 as stated: after a fix round that returns no parseable corrected file, the file
\* set is unchanged, no error is raised, and the loop proceeds to the next validation
\* stage (from build to test, from test to the publication).
C31_NoOpFixProceedsToNextStage ==
    [][NoOpFixRound
         => /\ fix'.files = fix.files
            /\ fix'.phase = (IF fix.phase = "build" THEN "test" ELSE "publish")]_vars

\* C31 as amended: after a fix round that returns no parseable corrected file, the file
\* set is unchanged and no error is raised; the round uses up one attempt and the loop
\* starts the next attempt at the install step with the unmodified files.
C31_NoOpFixRestartsAtInstall ==
    [][NoOpFixRound
         => /\ fix'.files = fix.files
            /\ fix'.phase = "install"
            /\ fix'.attempt = fix.attempt + 1
            /\ fix'.runs = fix.runs + 1
            /\ fix'.fixCalls = fix.fixCalls + 1
            /\ fix'.warned = fix.warned]_vars

\* C31 witness: the test step failed at attempt 1, the fix round gave back the
\* original files, and the second and last extra attempt starts at the install step
C31_Witness ==
    /\ last.op = "test" /\ last.msg = "originals"
    /\ fix.phase = "install" /\ fix.attempt = maxFixAttempts
    /\ fix.files = 0 /\ fix.fixCalls = maxFixAttempts

\* The phases of the build & test verification of doRealWork
ValidationPhases == {"install", "build", "test", "check"}

\* C32: whatever the install, build, test and check steps give, a step of the
\* validation leads to another validation step or to the publish step, never to a
\* return or a throw of doRealWork, and the validation always reaches the publish step.
C32_ValidationNeverBlocksDelivery ==
    /\ [][fix.phase \in ValidationPhases
            => fix'.phase \in ValidationPhases \cup {"publish"}]_vars
    /\ (fix.phase \in ValidationPhases) ~> (fix.phase = "publish")

\* C32 witness: build and test failed at the last attempt after the attempts before
\* it had failed too, and doRealWork is at the publish step
C32_Witness ==
    /\ fix.phase = "publish"
    /\ last.op = "test" /\ last.obs = "failed"
    /\ fix.warned = {"build", "test"}
    /\ fix.runs = maxFixAttempts + 1

\* Every file of the list has a path and a content
AllFilled(files) ==
    \A i \in 1..Len(files) : files[i].path # <<>> /\ files[i].content # <<>>

\* C33: when the generation command failed, or its output holds no parseable file, the
\* files of doRealWork are those of the template fallback; and the file set that is
\* validated and published is never empty, from the generation to the publication and
\* through every fix round.
C33_FileSetNeverEmpty ==
    /\ fix.phase # "idle" => (fix.fileSet # <<>> /\ AllFilled(fix.fileSet))
    /\ (/\ last.op = "doRealWork.begin"
        /\ (~last.usedAI \/ parseGeneratedFiles(last.output) = <<>>))
       => fix.fileSet = generateFallbackFiles

\* C33 witness: the generation command returned prose without a file marker, the
\* fallback files were validated, and doRealWork has published them
C33_Witness ==
    /\ fix.phase = "done" /\ fix.usedAI /\ fix.fallback
    /\ fix.fileSet = generateFallbackFiles
    /\ fix.published = 0

\* C34: verifyUrlStatus(url) never fails with an exception or a rejection; it returns
\* true exactly when the existence check answered with a status in 200..399, and false
\* for any other status, a transport error or a timeout.
C34_UrlCheckTotal ==
    last.op = "verifyUrlStatus"
       => /\ last.obs \in {"live", "dead"}
          /\ last.obs = "live" <=> (last.status >= 200 /\ last.status <= 399)

\* The order of the steps of a cycle, as pairs of positions of the loop: the bid loop,
\* the award check, the rework check, the work loop with the pre-flight check and the
\* submit request of each job, the payment check, the save and the sleep; the catch
\* block (errsleep) and the end of the process can follow any step
StepOrder ==
    {<<"top", "bid">>, <<"bid", "bid">>, <<"bid", "award">>, <<"award", "award">>,
     <<"award", "changes">>, <<"changes", "changes">>, <<"changes", "work">>,
     <<"work", "work">>, <<"work", "verify">>, <<"verify", "work">>, <<"verify", "submit">>,
     <<"submit", "work">>, <<"work", "pay">>, <<"pay", "pay">>, <<"pay", "sleep">>,
     <<"sleep", "top">>, <<"errsleep", "top">>, <<"exit", "top">>}
    \cup {<<p, q>> : p \in {"top", "bid", "award", "changes", "work", "verify", "submit",
                             "pay", "sleep", "errsleep", "exit"},
                     q \in {"errsleep", "exit"}}

\* C35: the steps of a cycle run in the order bid placement, award check, rework
\* check, work / pre-flight / submit per active job, payment check per delivered job,
\* each ending before the next starts; and when the cycle is over, every job that its
\* award check began to track or its rework check sent back has been worked on in that
\* cycle, and every job delivered in it has been payment-checked in it.
C35_StepsInOrderWithinACycle ==
    [][/\ <<pc, pc'>> \in StepOrder
       /\ pc' \in {"sleep", "errsleep"} => (hist'.dueWork = {} /\ hist'.duePay = {})]_vars

\* C36: a job that a payment check removed because it had expired is never again in
\* activeJobs, deliveredJobs or paidJobs, and no message, work, pre-flight check or
\* submit request is made for it afterwards.
C36_ExpiryIsTerminal ==
    /\ \A j \in hist.expired : j \notin TrackedIds(State)
    /\ last.op \in {"checkBids.award", "requestChanges", "doRealWork", "verifyUrlStatus",
                     "submit"}
          => last.jobId \notin hist.expired

\* The step posts the starting message for job j: its entry of activeJobs goes from
\* messageSent false to messageSent true
StartingMessagePosted(j) ==
    /\ \E i \in 1..Len(State.activeJobs) :
          State.activeJobs[i].jobId = j /\ ~State.activeJobs[i].messageSent
    /\ \E i \in 1..Len(State'.activeJobs) :
          State'.activeJobs[i].jobId = j /\ State'.activeJobs[i].messageSent

\* C37: the starting message is posted at most once for a job id, whatever happens to
\* the job afterwards (submissions that fail and are retried in later cycles, rework
\* after a request for changes).
C37_StartingMessageAtMostOnce ==
    [][\A j \in JobIds : StartingMessagePosted(j) => j \notin hist.messaged]_vars

\* C38: once a submit request for a job was answered 409, the job does not go back to
\* activeJobs, and doRealWork, the pre-flight check and the submit request are not run
\* for it again in any later cycle, unless the rework check has sent it back in
\* between (a paid job is out of question: it is never worked on again).
C38_ConflictEndsResubmission ==
    [][/\ \A j \in hist.locked : ~HasJob(State.activeJobs, j)
       /\ last'.op \in {"doRealWork", "verifyUrlStatus", "submit"}
            => last'.jobId \notin hist.locked]_vars

\* C39: in every state the job ids of activeJobs, deliveredJobs and paidJobs are
\* pairwise disjoint, none of the three holds a job id twice, every entry of
\* activeJobs has status awarded and every entry of deliveredJobs has status delivered.
C39_CollectionsWellFormed ==
    /\ IdsOf(State.activeJobs) \cap IdsOf(State.deliveredJobs) = {}
    /\ IdsOf(State.activeJobs) \cap IdsOf(State.paidJobs) = {}
    /\ IdsOf(State.deliveredJobs) \cap IdsOf(State.paidJobs) = {}
    /\ NoTwin(State.activeJobs)
    /\ NoTwin(State.deliveredJobs)
    /\ NoTwin(State.paidJobs)
    /\ StatusesOf(State.activeJobs) \subseteq {"awarded"}
    /\ StatusesOf(State.deliveredJobs) \subseteq {"delivered"}

\* The rework check has just moved a delivered job back to activeJobs
C39_Witness ==
    /\ last.op = "requestChanges"
    /\ HasJob(State.activeJobs, last.jobId)
    /\ ~HasJob(State.deliveredJobs, last.jobId)
    /\ "awarded" \in StatusesOf(State.activeJobs)

\* C40: the number of jobs in activeJobs never exceeds the configured maxConcurrent.
C40_ActiveJobsWithinMaxConcurrent ==
    proc = "running" => Len(State.activeJobs) <= Config.maxConcurrent

====
